---- MODULE Spec2Model ----
(***************************************************************************)
(* examples/utcp_tools/echo.py: the echo tool.  One run of main(): decode  *)
(* the first command-line argument as JSON, read its "text" entry, print   *)
(* {"content": "echo: <text>"}.                                            *)
(*                                                                         *)
(* Text is modelled character by character: a Python str is a sequence of  *)
(* one-character strings.  json.loads and json.dumps are modelled by what  *)
(* CPython's json package does on the characters that occur in the inputs  *)
(* (no "\u" or "\b" escape, no fraction or exponent after a digit, no      *)
(* NaN/Infinity literal occurs in any input of the model).                 *)
(***************************************************************************)
EXTENDS Integers, Sequences, FiniteSets, TLC

VARIABLES
    input,          \* the command line the run was started on, as built (never read by main)
    argv,           \* sys.argv
    pc,             \* where main() stands
    args,           \* the local args
    text,           \* the local text
    exc,            \* the exception being raised, "" when none
    stdout,         \* the characters written to standard output
    stderr,         \* the tracebacks written to standard error, by exception name
    status,         \* the exit status, -1 while the process runs
    loadsCalled,    \* json.loads has been called
    caught          \* the except clause has run

vars == <<input, argv, pc, args, text, exc, stdout, stderr, status, loadsCalled, caught>>

(***************************************************************************)
(* Python values.  t is the type name, v the payload.                      *)
(***************************************************************************)
PyStr(cs) == [t |-> "str", v |-> cs]

PyInt(n) == [t |-> "int", v |-> n]

PyBool(b) == [t |-> "bool", v |-> b]

PyNone == [t |-> "NoneType", v |-> 0]

PyList(xs) == [t |-> "list", v |-> xs]

\* a dict is its items in insertion order, keys unique: <<[k |-> key, v |-> value], ...>>
PyDict(items) == [t |-> "dict", v |-> items]

\* a name that has not been assigned yet
Unbound == [t |-> "unbound", v |-> 0]

EmptyDict == PyDict(<<>>)

EmptyStr == PyStr(<<>>)

RECURSIVE DictSet(_, _, _)
\* d[k] = x on the items of a dict: an existing key keeps its place
DictSet(items, k, x) ==
    IF items = <<>> THEN <<[k |-> k, v |-> x]>>
    ELSE IF Head(items).k = k THEN <<[k |-> k, v |-> x]>> \o Tail(items)
    ELSE <<Head(items)>> \o DictSet(Tail(items), k, x)

RECURSIVE DictGetNoDefault(_, _, _)
\* DictGet that ignores its default, as dict.get(k) does: None for a missing key
DictGetNoDefault(items, k, default) ==
    IF items = <<>> THEN PyNone
    ELSE IF Head(items).k = k THEN Head(items).v
    ELSE DictGetNoDefault(Tail(items), k, default)

RECURSIVE DictGet(_, _, _)
\* dict.get(k, default) on the items of a dict
DictGet(items, k, default) ==
    IF items = <<>> THEN default
    ELSE IF Head(items).k = k THEN Head(items).v
    ELSE DictGet(Tail(items), k, default)

\* hasattr(x, "get"): of the values json.loads returns, only a dict has .get
HasGet(x) == x.t = "dict"

(***************************************************************************)
(* json.loads                                                              *)
(***************************************************************************)
WHITESPACE == {" ", "\t", "\n", "\r"}

\* characters below U+0020, which a strict JSON string may not hold raw
CONTROL == {"\t", "\n", "\r", "\f"}

DIGIT == {"0", "1", "2", "3", "4", "5", "6", "7", "8", "9"}

DigitVal ==
    [c \in DIGIT |->
        CASE c = "0" -> 0 [] c = "1" -> 1 [] c = "2" -> 2 [] c = "3" -> 3
          [] c = "4" -> 4 [] c = "5" -> 5 [] c = "6" -> 6 [] c = "7" -> 7
          [] c = "8" -> 8 [] c = "9" -> 9]

\* json.decoder.BACKSLASH: the one-character escapes
BACKSLASH ==
    [c \in {"\"", "\\", "/", "f", "n", "r", "t"} |->
        CASE c = "\"" -> "\"" [] c = "\\" -> "\\" [] c = "/" -> "/"
          [] c = "f" -> "\f" [] c = "n" -> "\n" [] c = "r" -> "\r"
          [] c = "t" -> "\t"]

\* the character at index i, "" past the end
At(s, i) == IF i >= 1 /\ i <= Len(s) THEN s[i] ELSE ""

\* s[i : i + n]
Slice(s, i, n) == IF i + n - 1 <= Len(s) THEN SubSeq(s, i, i + n - 1) ELSE SubSeq(s, i, Len(s))

\* a decode step that raised JSONDecodeError
Raise == [ok |-> FALSE, val |-> PyNone, end |-> 0]

\* a decode step that returned value x and the index after it
Ok(x, e) == [ok |-> TRUE, val |-> x, end |-> e]

RECURSIVE SkipWs(_, _)
\* WHITESPACE.match(s, i).end()
SkipWs(s, i) == IF i <= Len(s) /\ s[i] \in WHITESPACE THEN SkipWs(s, i + 1) ELSE i

RECURSIVE scanstring(_, _, _)
\* py_scanstring(s, i, strict=True): i is the index after the opening quote
scanstring(s, i, acc) ==
    IF i > Len(s) THEN Raise                        \* Unterminated string
    ELSE IF s[i] = "\"" THEN Ok(PyStr(acc), i + 1)
    ELSE IF s[i] \in CONTROL THEN Raise             \* Invalid control character
    ELSE IF s[i] # "\\" THEN scanstring(s, i + 1, Append(acc, s[i]))
    ELSE IF i + 1 > Len(s) THEN Raise               \* Unterminated string
    ELSE IF s[i + 1] \in DOMAIN BACKSLASH
         THEN scanstring(s, i + 2, Append(acc, BACKSLASH[s[i + 1]]))
    ELSE Raise                                      \* Invalid \escape

RECURSIVE DigitsEnd(_, _)
\* the index after the run of digits that starts at i
DigitsEnd(s, i) == IF i <= Len(s) /\ s[i] \in DIGIT THEN DigitsEnd(s, i + 1) ELSE i

\* NUMBER_RE.match(s, i): the index after -?(0|[1-9][0-9]*), 0 when there is no match
NumberEnd(s, i) ==
    LET j == IF At(s, i) = "-" THEN i + 1 ELSE i
    IN  IF At(s, j) = "0" THEN j + 1
        ELSE IF At(s, j) \in DIGIT THEN DigitsEnd(s, j + 1)
        ELSE 0

RECURSIVE NatOf(_, _)
\* the number a run of digits writes, acc the value of the digits read so far
NatOf(ds, acc) == IF ds = <<>> THEN acc ELSE NatOf(Tail(ds), acc * 10 + DigitVal[Head(ds)])

\* int(literal)
IntOf(lit) == IF Head(lit) = "-" THEN -NatOf(Tail(lit), 0) ELSE NatOf(lit, 0)

RECURSIVE scan_once(_, _)
RECURSIVE ObjectPairs(_, _, _)
RECURSIVE ArrayItems(_, _, _)

\* JSONObject(s, i): i is the index after "{"
JSONObject(s, i) ==
    LET j == SkipWs(s, i)
    IN  IF At(s, j) = "}" THEN Ok(EmptyDict, j + 1)
        ELSE IF At(s, j) # "\"" THEN Raise          \* Expecting property name
        ELSE ObjectPairs(s, j + 1, <<>>)

\* the member loop of JSONObject: i is the index after the opening quote of a key
ObjectPairs(s, i, items) ==
    LET key == scanstring(s, i, <<>>)
        c == SkipWs(s, key.end)
        val == scan_once(s, SkipWs(s, c + 1))
        e == SkipWs(s, val.end)
        q == SkipWs(s, e + 1)
        items2 == DictSet(items, key.val.v, val.val)
    IN  IF ~key.ok THEN Raise
        ELSE IF At(s, c) # ":" THEN Raise           \* Expecting ':' delimiter
        ELSE IF ~val.ok THEN Raise                  \* Expecting value
        ELSE IF At(s, e) = "}" THEN Ok(PyDict(items2), e + 1)
        ELSE IF At(s, e) # "," THEN Raise           \* Expecting ',' delimiter
        ELSE IF At(s, q) # "\"" THEN Raise          \* Expecting property name
        ELSE ObjectPairs(s, q + 1, items2)

\* JSONArray(s, i): i is the index after "["
JSONArray(s, i) ==
    LET j == SkipWs(s, i)
    IN  IF At(s, j) = "]" THEN Ok(PyList(<<>>), j + 1)
        ELSE ArrayItems(s, j, <<>>)

\* the element loop of JSONArray: i is the index of the next element
ArrayItems(s, i, xs) ==
    LET val == scan_once(s, i)
        e == SkipWs(s, val.end)
    IN  IF ~val.ok THEN Raise                       \* Expecting value
        ELSE IF At(s, e) = "]" THEN Ok(PyList(Append(xs, val.val)), e + 1)
        ELSE IF At(s, e) # "," THEN Raise           \* Expecting ',' delimiter
        ELSE ArrayItems(s, SkipWs(s, e + 1), Append(xs, val.val))

\* scanner.scan_once(s, i): the value that starts at index i
scan_once(s, i) ==
    LET c == At(s, i)
        n == NumberEnd(s, i)
    IN  IF c = "" THEN Raise
        ELSE IF c = "\"" THEN scanstring(s, i + 1, <<>>)
        ELSE IF c = "{" THEN JSONObject(s, i + 1)
        ELSE IF c = "[" THEN JSONArray(s, i + 1)
        ELSE IF c = "n" /\ Slice(s, i, 4) = <<"n", "u", "l", "l">> THEN Ok(PyNone, i + 4)
        ELSE IF c = "t" /\ Slice(s, i, 4) = <<"t", "r", "u", "e">> THEN Ok(PyBool(TRUE), i + 4)
        ELSE IF c = "f" /\ Slice(s, i, 5) = <<"f", "a", "l", "s", "e">>
             THEN Ok(PyBool(FALSE), i + 5)
        ELSE IF n # 0 THEN Ok(PyInt(IntOf(SubSeq(s, i, n - 1))), n)
        ELSE Raise                                  \* Expecting value

\* json.loads(s): JSONDecoder.decode, the whole of s is one JSON value
loads(s) ==
    LET r == scan_once(s, SkipWs(s, 1))
    IN  IF ~r.ok THEN Raise
        ELSE IF SkipWs(s, r.end) # Len(s) + 1 THEN Raise    \* Extra data
        ELSE r

(***************************************************************************)
(* str(), repr() and the f-string                                          *)
(***************************************************************************)
DigitChar == <<"0", "1", "2", "3", "4", "5", "6", "7", "8", "9">>

\* NatStr that writes the last digit only
NatStrLastDigit(n) == <<DigitChar[(n % 10) + 1]>>

RECURSIVE NatStr(_)
\* str(n) for n >= 0
NatStr(n) == IF n < 10 THEN <<DigitChar[n + 1]>> ELSE NatStr(n \div 10) \o <<DigitChar[(n % 10) + 1]>>

\* int.__repr__
IntStr(n) == IF n < 0 THEN <<"-">> \o NatStr(-n) ELSE NatStr(n)

\* has(cs, c): c in cs
Has(cs, c) == \E i \in 1..Len(cs) : cs[i] = c

\* the quote str.__repr__ puts around cs
ReprQuote(cs) == IF Has(cs, "'") /\ ~Has(cs, "\"") THEN "\"" ELSE "'"

\* one character inside str.__repr__, q the quote in use
ReprChar(c, q) ==
    CASE c = "\\" -> <<"\\", "\\">>
      [] c = q    -> <<"\\", q>>
      [] c = "\n" -> <<"\\", "n">>
      [] c = "\r" -> <<"\\", "r">>
      [] c = "\t" -> <<"\\", "t">>
      [] c = "\f" -> <<"\\", "x", "0", "c">>
      [] OTHER    -> <<c>>

RECURSIVE ReprChars(_, _)
ReprChars(cs, q) == IF cs = <<>> THEN <<>> ELSE ReprChar(Head(cs), q) \o ReprChars(Tail(cs), q)

\* str.__repr__
StrRepr(cs) == <<ReprQuote(cs)>> \o ReprChars(cs, ReprQuote(cs)) \o <<ReprQuote(cs)>>

RECURSIVE repr(_)
RECURSIVE ReprList(_)
RECURSIVE ReprItems(_)

\* ", ".join(repr(x) for x in xs)
ReprList(xs) ==
    IF xs = <<>> THEN <<>>
    ELSE IF Len(xs) = 1 THEN repr(xs[1])
    ELSE repr(Head(xs)) \o <<",", " ">> \o ReprList(Tail(xs))

\* ", ".join(repr(k) + ": " + repr(v) for k, v in d.items())
ReprItems(items) ==
    IF items = <<>> THEN <<>>
    ELSE IF Len(items) = 1 THEN StrRepr(items[1].k) \o <<":", " ">> \o repr(items[1].v)
    ELSE StrRepr(Head(items).k) \o <<":", " ">> \o repr(Head(items).v) \o <<",", " ">>
             \o ReprItems(Tail(items))

\* repr(x)
repr(x) ==
    CASE x.t = "str"      -> StrRepr(x.v)
      [] x.t = "int"      -> IntStr(x.v)
      [] x.t = "bool"     -> IF x.v THEN <<"T", "r", "u", "e">> ELSE <<"F", "a", "l", "s", "e">>
      [] x.t = "NoneType" -> <<"N", "o", "n", "e">>
      [] x.t = "list"     -> <<"[">> \o ReprList(x.v) \o <<"]">>
      [] x.t = "dict"     -> <<"{">> \o ReprItems(x.v) \o <<"}">>

\* str(x) == format(x, ""): a str is itself, every other value is its repr
str(x) == IF x.t = "str" THEN x.v ELSE repr(x)

\* the literal prefix of the f-string
Prefix == <<"e", "c", "h", "o", ":", " ">>

\* fstring that formats nothing: the value itself becomes the content
FstringRaw(x) == x

\* f"echo: {text}"
fstring(x) == PyStr(Prefix \o str(x))

(***************************************************************************)
(* json.dumps                                                              *)
(***************************************************************************)
\* EscapeChar without its table: every character is written as it is
EscapeCharNone(c) == <<c>>

\* json.encoder.ESCAPE_DCT, as ensure_ascii=True uses it
EscapeChar(c) ==
    CASE c = "\\" -> <<"\\", "\\">>
      [] c = "\"" -> <<"\\", "\"">>
      [] c = "\n" -> <<"\\", "n">>
      [] c = "\r" -> <<"\\", "r">>
      [] c = "\t" -> <<"\\", "t">>
      [] c = "\f" -> <<"\\", "f">>
      [] OTHER    -> <<c>>

RECURSIVE EscapeChars(_)
EscapeChars(cs) == IF cs = <<>> THEN <<>> ELSE EscapeChar(Head(cs)) \o EscapeChars(Tail(cs))

\* py_encode_basestring_ascii
encode_basestring_ascii(cs) == <<"\"">> \o EscapeChars(cs) \o <<"\"">>

RECURSIVE dumps(_)
RECURSIVE DumpsList(_)
RECURSIVE DumpsItems(_)

\* the elements of a list, joined by the item separator ", "
DumpsList(xs) ==
    IF xs = <<>> THEN <<>>
    ELSE IF Len(xs) = 1 THEN dumps(xs[1])
    ELSE dumps(Head(xs)) \o <<",", " ">> \o DumpsList(Tail(xs))

\* the items of a dict, key and value joined by ": ", items by ", "
DumpsItems(items) ==
    IF items = <<>> THEN <<>>
    ELSE IF Len(items) = 1
         THEN encode_basestring_ascii(items[1].k) \o <<":", " ">> \o dumps(items[1].v)
    ELSE encode_basestring_ascii(Head(items).k) \o <<":", " ">> \o dumps(Head(items).v)
             \o <<",", " ">> \o DumpsItems(Tail(items))

\* json.dumps(x) with the default separators
dumps(x) ==
    CASE x.t = "str"      -> encode_basestring_ascii(x.v)
      [] x.t = "int"      -> IntStr(x.v)
      [] x.t = "bool"     -> IF x.v THEN <<"t", "r", "u", "e">> ELSE <<"f", "a", "l", "s", "e">>
      [] x.t = "NoneType" -> <<"n", "u", "l", "l">>
      [] x.t = "list"     -> <<"[">> \o DumpsList(x.v) \o <<"]">>
      [] x.t = "dict"     -> <<"{">> \o DumpsItems(x.v) \o <<"}">>

\* the key of the output record
ContentKey == <<"c", "o", "n", "t", "e", "n", "t">>

\* {"content": f"echo: {text}"}
OutputRecord(x) == PyDict(<<[k |-> ContentKey, v |-> fstring(x)]>>)

\* the key main() reads
TextKey == <<"t", "e", "x", "t">>

(***************************************************************************)
(* The command lines the runs are started on.  Each carries, beside the    *)
(* argument text src, what it was built as: cls is "raw" (any text over    *)
(* RawAlphabet), "value" (a JSON value that is not an object), "object" (a *)
(* JSON object built from members) or "truncated" (a proper prefix of such *)
(* an object, so not JSON); ntext counts the members whose key is "text",  *)
(* kind is the JSON type of the last of them and out is the text of that   *)
(* value as it stands, escaped, in the output line.                        *)
(***************************************************************************)
MaxRawLen == 3

MaxMembers == 2

RawAlphabet == {"{", "}", "[", "]", "\"", ":", ",", "\\", "-", "0", "5", " "}

Case(src, cls, ntext, kind, out) ==
    [src |-> src, cls |-> cls, ntext |-> ntext, kind |-> kind, out |-> out]

\* a JSON value as written (src), its JSON type (kind) and its text in the output line (out)
Lit(src, kind, out) == [src |-> src, kind |-> kind, out |-> out]

StringLits ==
    { Lit(<<"\"", "h", "i", "\"">>, "string", <<"h", "i">>),
      Lit(<<"\"", "\"">>, "string", <<>>),
      Lit(<<"\"", "a", "\\", "\"", "b", "\"">>, "string", <<"a", "\\", "\"", "b">>),
      Lit(<<"\"", "x", "\\", "n", "\\", "\\", "\"">>, "string", <<"x", "\\", "n", "\\", "\\">>) }

IntLits ==
    { Lit(<<"5">>, "int", <<"5">>),
      Lit(<<"-", "1", "2">>, "int", <<"-", "1", "2">>),
      Lit(<<"-", "0">>, "int", <<"0">>) }

OtherLits ==
    { Lit(<<"n", "u", "l", "l">>, "null", <<"N", "o", "n", "e">>),
      Lit(<<"t", "r", "u", "e">>, "bool", <<"T", "r", "u", "e">>),
      Lit(<<"[", "5", ",", "\"", "a", "\"", "]">>, "array", <<"[", "5", ",", " ", "'", "a", "'", "]">>),
      Lit(<<"{", "\"", "k", "\"", ":", "f", "a", "l", "s", "e", "}">>, "object",
          <<"{", "'", "k", "'", ":", " ", "F", "a", "l", "s", "e", "}">>) }

ValueLits == StringLits \cup IntLits \cup OtherLits

\* the values the members with another key take
OtherKeyLits ==
    { Lit(<<"5">>, "int", <<"5">>),
      Lit(<<"\"", "t", "e", "x", "t", "\"">>, "string", <<"t", "e", "x", "t">>) }

Members ==
    { [key |-> <<"t", "e", "x", "t">>, val |-> l] : l \in ValueLits }
        \cup { [key |-> <<"k">>, val |-> l] : l \in OtherKeyLits }

MemberSeqs == UNION { [1..n -> Members] : n \in 0..MaxMembers }

\* "key":value, with a space after the colon when sp
MemberSrc(m, sp) ==
    <<"\"">> \o m.key \o <<"\"", ":">> \o (IF sp THEN <<" ">> ELSE <<>>) \o m.val.src

RECURSIVE MembersSrc(_, _)
MembersSrc(ms, sp) ==
    IF ms = <<>> THEN <<>>
    ELSE IF Len(ms) = 1 THEN MemberSrc(ms[1], sp)
    ELSE MemberSrc(Head(ms), sp) \o <<",">> \o (IF sp THEN <<" ">> ELSE <<>>)
             \o MembersSrc(Tail(ms), sp)

\* the indices of the members whose key is "text"
TextAt(ms) == { i \in 1..Len(ms) : ms[i].key = <<"t", "e", "x", "t">> }

LastOf(S) == CHOOSE i \in S : \A j \in S : j <= i

ObjectCase(ms, sp) ==
    Case(<<"{">> \o MembersSrc(ms, sp) \o <<"}">>, "object", Cardinality(TextAt(ms)),
         IF TextAt(ms) = {} THEN "" ELSE ms[LastOf(TextAt(ms))].val.kind,
         IF TextAt(ms) = {} THEN <<>> ELSE ms[LastOf(TextAt(ms))].val.out)

ObjectCases == { ObjectCase(ms, sp) : ms \in MemberSeqs, sp \in BOOLEAN }

ValueCases == { Case(l.src, "value", 0, "", <<>>) : l \in ValueLits \ { l \in ValueLits : l.kind = "object" } }

\* the first n characters of an object, n less than its length
Truncated(c, n) == Case(SubSeq(c.src, 1, n), "truncated", 0, "", <<>>)

RawCases ==
    { Case(r, "raw", 0, "", <<>>) : r \in UNION { [1..n -> RawAlphabet] : n \in 0..MaxRawLen } }

Cases == RawCases \cup ValueCases \cup ObjectCases

\* the run without an argument
NoArgCase == Case(<<>>, "noarg", 0, "", <<>>)

\* sys.argv[0]
Prog == <<"e", "c", "h", "o", ".", "p", "y">>

(***************************************************************************)
(* main()                                                                  *)
(***************************************************************************)
Init ==
    /\ \/ input \in Cases \cup {NoArgCase}
       \/ \E c \in ObjectCases : \E n \in 1..(Len(c.src) - 1) : input = Truncated(c, n)
    /\ argv = IF input.cls = "noarg" THEN <<Prog>> ELSE <<Prog, input.src>>
    /\ pc = "try"
    /\ args = Unbound
    /\ text = Unbound
    /\ exc = ""
    /\ stdout = <<>>
    /\ stderr = <<>>
    /\ status = -1
    /\ loadsCalled = FALSE
    /\ caught = FALSE

\* len(sys.argv) > 1; sys.argv[1] is argv[2] here, sequences being indexed from 1
HasArgument == Len(argv) > 1

\* NoArgument with None in place of the empty dict
NoArgumentNone ==
    /\ pc = "try"
    /\ ~HasArgument
    /\ args' = PyNone
    /\ pc' = "get"
    /\ UNCHANGED <<input, argv, text, exc, stdout, stderr, status, loadsCalled, caught>>

\* line 8, the else branch: args = {}
NoArgument ==
    /\ pc = "try"
    /\ ~HasArgument
    /\ args' = EmptyDict
    /\ pc' = "get"
    /\ UNCHANGED <<input, argv, text, exc, stdout, stderr, status, loadsCalled, caught>>

\* line 8: args = json.loads(sys.argv[1]), the call returns
LoadsReturns ==
    /\ pc = "try"
    /\ HasArgument
    /\ loads(argv[2]).ok
    /\ args' = loads(argv[2]).val
    /\ loadsCalled' = TRUE
    /\ pc' = "get"
    /\ UNCHANGED <<input, argv, text, exc, stdout, stderr, status, caught>>

\* line 8: json.loads(sys.argv[1]) raises json.JSONDecodeError, args is not assigned
LoadsRaises ==
    /\ pc = "try"
    /\ HasArgument
    /\ ~loads(argv[2]).ok
    /\ exc' = "JSONDecodeError"
    /\ loadsCalled' = TRUE
    /\ pc' = "except"
    /\ UNCHANGED <<input, argv, args, text, stdout, stderr, status, caught>>

\* ExceptDecodeError without the except clause: the decode error leaves main()
ExceptDecodeErrorMissing ==
    /\ pc = "except"
    /\ exc = "JSONDecodeError"
    /\ pc' = "uncaught"
    /\ UNCHANGED <<input, argv, args, text, exc, stdout, stderr, status, loadsCalled, caught>>

\* lines 9-10: except json.JSONDecodeError: args = {}
ExceptDecodeError ==
    /\ pc = "except"
    /\ exc = "JSONDecodeError"
    /\ args' = EmptyDict
    /\ exc' = ""
    /\ caught' = TRUE
    /\ pc' = "get"
    /\ UNCHANGED <<input, argv, text, stdout, stderr, status, loadsCalled>>

\* line 12: text = args.get("text", ""), args has the method
GetText ==
    /\ pc = "get"
    /\ HasGet(args)
    /\ text' = DictGet(args.v, TextKey, EmptyStr)
    /\ pc' = "print"
    /\ UNCHANGED <<input, argv, args, exc, stdout, stderr, status, loadsCalled, caught>>

\* GetRaises with the lookup inside the try statement and an except clause that takes it
GetRaisesRecovered ==
    /\ pc = "get"
    /\ ~HasGet(args)
    /\ args' = EmptyDict
    /\ caught' = TRUE
    /\ UNCHANGED <<input, argv, pc, text, exc, stdout, stderr, status, loadsCalled>>

\* line 12: args.get raises AttributeError, outside the try statement
GetRaises ==
    /\ pc = "get"
    /\ ~HasGet(args)
    /\ exc' = "AttributeError"
    /\ pc' = "uncaught"
    /\ UNCHANGED <<input, argv, args, text, stdout, stderr, status, loadsCalled, caught>>

\* line 13: print(json.dumps({"content": f"echo: {text}"}))
WriteOutput ==
    /\ pc = "print"
    /\ stdout' = stdout \o dumps(OutputRecord(text)) \o <<"\n">>
    /\ pc' = "return"
    /\ UNCHANGED <<input, argv, args, text, exc, stderr, status, loadsCalled, caught>>

\* main() returns and the interpreter exits with status 0
Return ==
    /\ pc = "return"
    /\ status' = 0
    /\ pc' = "done"
    /\ UNCHANGED <<input, argv, args, text, exc, stdout, stderr, loadsCalled, caught>>

\* the exception leaves main(): traceback on standard error, exit status 1
Uncaught ==
    /\ pc = "uncaught"
    /\ stderr' = Append(stderr, exc)
    /\ status' = 1
    /\ pc' = "done"
    /\ UNCHANGED <<input, argv, args, text, exc, stdout, loadsCalled, caught>>

Next ==
    \/ NoArgument
    \/ LoadsReturns
    \/ LoadsRaises
    \/ ExceptDecodeError
    \/ GetText
    \/ GetRaises
    \/ WriteOutput
    \/ Return
    \/ Uncaught

Spec == Init /\ [][Next]_vars

(***************************************************************************)
(* Properties                                                              *)
(***************************************************************************)
\* the output line whose content is "echo: " followed by out, as it stands on standard output
ExpectedLine(out) ==
    <<"{", "\"", "c", "o", "n", "t", "e", "n", "t", "\"", ":", " ", "\"",
      "e", "c", "h", "o", ":", " ">> \o out \o <<"\"", "}", "\n">>

\* {"content": "echo: "} and the end of the line
EmptyLine == ExpectedLine(<<>>)

Done == pc = "done"

\* the run ended as a run without failure does
EndedNormally == status = 0 /\ stderr = <<>> /\ exc = ""

\* the number of lines on standard output
LineCount == Cardinality({ i \in 1..Len(stdout) : stdout[i] = "\n" })

\* standard output without its last character
FirstLine == SubSeq(stdout, 1, Len(stdout) - 1)

\* the value args holds at key "text", Unbound when the key is missing
TextEntry == DictGet(args.v, TextKey, Unbound)

\* C1: an argument that is a JSON object with "text" mapped to a string s gives the
\* output {"content": "echo: " + s}, whatever the other keys; decoded again, the
\* content is "echo: " followed by s unchanged.
C1_EchoesTextString ==
    /\ (Done /\ input.cls = "object" /\ input.ntext = 1 /\ input.kind = "string")
         => (stdout = ExpectedLine(input.out) /\ EndedNormally)
    /\ (Done /\ loadsCalled /\ ~caught /\ args.t = "dict" /\ TextEntry.t = "str")
         => /\ EndedNormally
            /\ loads(FirstLine).ok
            /\ loads(FirstLine).val = PyDict(<<[k |-> ContentKey, v |-> PyStr(Prefix \o TextEntry.v)]>>)

C1_Witness ==
    /\ Done
    /\ input.cls = "object" /\ input.ntext = 1 /\ input.kind = "string"
    /\ Len(args.v) = 2
    /\ Has(TextEntry.v, "\"")
    /\ stdout = ExpectedLine(<<"a", "\\", "\"", "b">>)

\* C2: every run, whatever the argument, ends with exit status 0 and no error.
C2_AlwaysExitsZero == Done => EndedNormally

C4_MalformedFallsBack ==
    (Done /\ (input.cls = "truncated" \/ (HasArgument /\ ~loads(argv[2]).ok)))
        => /\ caught
           /\ args = EmptyDict
           /\ stdout = EmptyLine
           /\ EndedNormally

C4_Witness ==
    /\ Done
    /\ input.cls = "truncated"
    /\ caught
    /\ stdout = EmptyLine

\* C5: every run writes exactly one line to standard output and nothing else.
C5_ExactlyOneLine == Done => (LineCount = 1 /\ stderr = <<>>)

\* C6: without an argument args is the empty mapping, json.loads is not called and
\* the output is {"content": "echo: "}.
C6_NoArgument ==
    ~HasArgument =>
        /\ ~loadsCalled
        /\ ~caught
        /\ pc # "try" => args = EmptyDict
        /\ Done => (stdout = EmptyLine /\ EndedNormally)

C6_Witness == Done /\ ~HasArgument /\ input.cls = "noarg" /\ stdout = EmptyLine

\* C7: an argument that is a JSON object without the key "text" gives the output
\* {"content": "echo: "}, whatever its other keys.
C7_MissingTextDefaults ==
    /\ (Done /\ input.cls = "object" /\ input.ntext = 0)
         => (text = EmptyStr /\ stdout = EmptyLine /\ EndedNormally)
    /\ (Done /\ loadsCalled /\ ~caught /\ args.t = "dict" /\ TextEntry = Unbound)
         => (text = EmptyStr /\ stdout = EmptyLine /\ EndedNormally)

C7_Witness ==
    /\ Done
    /\ input.cls = "object" /\ input.ntext = 0
    /\ args = PyDict(<<[k |-> <<"k">>, v |-> PyStr(TextKey)]>>)
    /\ stdout = EmptyLine

\* C8: an argument that is a JSON object with "text" mapped to an integer n gives the
\* content "echo: " followed by n in decimal, and the run does not fail.
C8_IntegerText ==
    (Done /\ input.cls = "object" /\ input.ntext = 1 /\ input.kind = "int")
        => (text.t = "int" /\ stdout = ExpectedLine(input.out) /\ EndedNormally)

C8_Witness ==
    /\ Done
    /\ HasArgument
    /\ argv[2] = <<"{", "\"", "t", "e", "x", "t", "\"", ":", " ", "5", "}">>
    /\ text = PyInt(5)
    /\ stdout = ExpectedLine(<<"5">>)

\* C9: where "text" is read, args is a mapping: the decoded argument when there is one
\* and it is JSON, the empty mapping otherwise.
C9_ArgsIsMapping ==
    pc = "get" =>
        /\ args.t = "dict"
        /\ args = IF HasArgument /\ loads(argv[2]).ok THEN loads(argv[2]).val ELSE EmptyDict

\* C10: an argument that is JSON but not an object is decoded without error; the lookup
\* of "text" then raises an error nothing recovers, and the run ends in it with
\* nothing written to standard output.
C10_NonObjectFails ==
    /\ (Done /\ (input.cls = "value"
                    \/ (HasArgument /\ loads(argv[2]).ok /\ loads(argv[2]).val.t # "dict")))
         => /\ ~caught
            /\ args.t # "dict"
            /\ exc = "AttributeError"
            /\ stderr = <<"AttributeError">>
            /\ status = 1
            /\ stdout = <<>>
    /\ pc = "uncaught" => (stdout = <<>> /\ ~caught)

C10_Witness ==
    /\ Done
    /\ input.cls = "value"
    /\ args = PyList(<<PyInt(5), PyStr(<<"a">>)>>)
    /\ status = 1

====
